---- MODULE Spec2Model ----
(***************************************************************************)
(* A model of the procedural grass subsystem of r3f-theatrejs-starter      *)
(* (src/src/components/3D/grass-component/grass.tsx): the terrain height   *)
(* functions, the terrain mesh builder and the instance transform          *)
(* generator.                                                              *)
(*                                                                         *)
(* JavaScript numbers are modelled in fixed point: the integer n stands    *)
(* for the number n / One.  Products and quotients are rounded toward      *)
(* zero, so that, as in IEEE arithmetic, f(-a) = -f(a) for the odd         *)
(* operations.                                                             *)
(***************************************************************************)
EXTENDS Integers, Sequences, FiniteSets, TLC

VARIABLES
    heightFunction,   \* the terrain function under evaluation / passed to Grass
    sample,           \* the HeightSample of the last call, or NoSample
    at,               \* the ground point (x, z) of the last call
    size,             \* Grass prop: [width, depth]
    bladeCount,       \* Grass prop
    bladeHeight,      \* Grass prop: [min, max]
    terrainSegments,  \* Grass prop
    rendered,         \* whether Grass has rendered (its memos are computed)
    terrainGeometry,  \* memo: the vertices of the terrain mesh, <<x, y, z>> each
    instanceMatrices, \* memo: the flat buffer of 16 numbers per blade
    blades,           \* per blade, the arguments the loop passed to compose
    wind,             \* Grass prop: the wind object, with some or all fields
    material,         \* memo: the uniforms of the ShaderMaterial, or NoMaterial
    elapsedTime,      \* state.clock.elapsedTime of the canvas
    shaded,           \* the last run of the vertex shader, or NoVertex
    defaulted,        \* whether the heightFunction prop is left out
    mesh,             \* meshRef.current: its instanceMatrix.array, or NoMesh
    pendingEffects,   \* the effects of Grass scheduled and not yet run
    regenerated,      \* whether the last render computed instanceMatrices
    mountedAt,        \* elapsedTime at the mount of Grass
    drawn,            \* what the last frame drew, or NoFrame
    orbitMode,        \* App: the orbitMode state
    enableScrollBinding, \* Experience: the enableScrollBinding state
    pressed,          \* how many keydown events each key has had
    scroll,           \* useScroll(): the offset of ScrollControls
    sheet,            \* useCurrentSheet(): position and length of its sequence
    window,           \* the properties set on window
    jsx,              \* what App and Experience last rendered of the controls
    frames,           \* how many frames the canvas has had
    progress,         \* useProgress(): the loading progress, 0 to 100
    isVisible,        \* LoadingScreen: the isVisible state
    timer,            \* LoadingScreen: the pending timeout, or NoTimer
    screenMounted,    \* whether LoadingScreen is mounted
    loading,          \* App: the loading state
    canvasCreated,    \* whether onCreated of the Canvas has been called
    finishedCalls,    \* how many times onFinished has been called
    since100,         \* for how long progress has been 100 without change
    clone,            \* THREE.Object3D.prototype.clone: the method installed
    hooks,            \* per component: the originalClone its effect captured
    mounts,           \* how many times useTheatreTextPatch has been mounted
    users,            \* the components that call useTheatreTextPatch
    cloned            \* the last call of clone: source, argument and outcome

vars == <<heightFunction, sample, at, size, bladeCount, bladeHeight,
          terrainSegments, rendered, terrainGeometry, instanceMatrices, blades,
          wind, material, elapsedTime, shaded, defaulted, mesh, pendingEffects,
          regenerated, mountedAt, drawn, orbitMode, enableScrollBinding,
          pressed, scroll, sheet, window, jsx, frames, progress, isVisible,
          timer, screenMounted, loading, canvasCreated, finishedCalls, since100,
          clone, hooks, mounts, users, cloned>>

terrainVars == <<heightFunction, sample, at>>
grassVars == <<size, bladeCount, bladeHeight, terrainSegments, rendered,
               terrainGeometry, instanceMatrices, blades>>
windVars == <<wind, material, elapsedTime, shaded>>
lifecycleVars == <<defaulted, mesh, pendingEffects, regenerated, mountedAt, drawn>>
controlVars == <<orbitMode, enableScrollBinding, pressed, scroll, sheet, window,
                 jsx, frames>>
loadingVars == <<progress, isVisible, timer, screenMounted, loading, canvasCreated,
                 finishedCalls, since100>>
patchVars == <<clone, hooks, mounts, users, cloned>>

----------------------------------------------------------------------------
(* Numbers *)

\* The fixed-point representation of 1.0.
One == 1000

Abs(a) == IF a < 0 THEN -a ELSE a

Max(a, b) == IF a >= b THEN a ELSE b

\* a / b on integers, rounded toward zero.
Div(a, b) ==
    IF a >= 0
    THEN IF b > 0 THEN a \div b ELSE -(a \div (-b))
    ELSE IF b > 0 THEN -((-a) \div b) ELSE (-a) \div (-b)

\* a * b and a / b on fixed-point numbers.
Mul(a, b) == Div(a * b, One)

Quot(a, b) == Div(a * One, b)

RECURSIVE SqrtSearch(_, _, _)
SqrtSearch(n, lo, hi) ==
    IF hi - lo <= 1 THEN lo
    ELSE LET mid == (lo + hi) \div 2
         IN  IF mid * mid <= n THEN SqrtSearch(n, mid, hi)
                               ELSE SqrtSearch(n, lo, mid)

\* The integer square root: the largest r with r * r <= n.
ISqrt(n) == SqrtSearch(n, 0, 46341)

\* Math.sqrt on a fixed-point number.
Sqrt(a) == ISqrt(a * One)

\* Math.sqrt(a*a + b*b + c*c) on fixed-point numbers; large arguments are
\* scaled down first, as the exponent of a float does.
HypotScaled(a, b, c, k) ==
    k * ISqrt((a \div k) * (a \div k) + (b \div k) * (b \div k)
                  + (c \div k) * (c \div k))

Hypot(a, b, c) ==
    HypotScaled(Abs(a), Abs(b), Abs(c),
                Max(Abs(a), Max(Abs(b), Abs(c))) \div 20000 + 1)

RECURSIVE IntPow(_, _)
IntPow(b, n) == IF n = 0 THEN One ELSE Mul(b, IntPow(b, n - 1))

\* Math.pow(b, r) for 0 <= b and r a non-negative multiple of 1/2.
Pow(b, r) ==
    IF (r \div (One \div 2)) % 2 = 0 THEN IntPow(b, r \div One)
    ELSE Mul(Sqrt(b), IntPow(b, r \div One))

RECURSIVE ExpNeg(_)
\* Math.exp(-u) for u >= 0: the Taylor polynomial below 1/2, and
\* exp(-u) = exp(-u/2)^2 above.
ExpNeg(u) ==
    IF u <= One \div 2
    THEN One - u + (u * u) \div (2 * One) - (((u * u) \div One) * u) \div (6 * One)
             + (((u * u) \div One) * ((u * u) \div One)) \div (24 * One)
    ELSE (ExpNeg(u \div 2) * ExpNeg(u \div 2)) \div One

\* Math.PI
PI == 3142

HalfPi == PI \div 2

QuarterPi == PI \div 4

\* sin and cos near 0 by their Taylor polynomials.
\* The powers x^2 .. x^6 of a fixed-point x >= 0.
Power2(x) == (x * x) \div One

Power3(x) == (Power2(x) * x) \div One

Power4(x) == (Power2(x) * Power2(x)) \div One

Power5(x) == (Power4(x) * x) \div One

Power6(x) == (Power4(x) * Power2(x)) \div One

SinSmall(x) == x - Power3(x) \div 6 + Power5(x) \div 120

CosSmall(x) == One - Power2(x) \div 2 + Power4(x) \div 24 - Power6(x) \div 720

\* sin and cos on [0, PI/2].
SinQuadrant(x) == IF x > QuarterPi THEN CosSmall(HalfPi - x) ELSE SinSmall(x)

CosQuadrant(x) == IF x > QuarterPi THEN SinSmall(HalfPi - x) ELSE CosSmall(x)

RECURSIVE Sin(_)
\* Math.sin
Sin(x) ==
    IF x < 0 THEN -Sin(-x)
    ELSE IF x >= 2 * PI THEN Sin(x - 2 * PI)
    ELSE IF x > PI THEN -Sin(x - PI)
    ELSE IF x > HalfPi THEN SinQuadrant(PI - x)
    ELSE SinQuadrant(x)

RECURSIVE Cos(_)
\* Math.cos
Cos(x) ==
    IF x < 0 THEN Cos(-x)
    ELSE IF x >= 2 * PI THEN Cos(x - 2 * PI)
    ELSE IF x > PI THEN -Cos(x - PI)
    ELSE IF x > HalfPi THEN -CosQuadrant(PI - x)
    ELSE CosQuadrant(x)

----------------------------------------------------------------------------
(* Terrain helper functions *)

\* DEFAULT_WIND: the configuration the wind prop is merged into.
DEFAULT_WIND ==
    [strength |-> (3 * One) \div 10, speed |-> One, direction |-> 0,
     turbulence |-> (3 * One) \div 10, gustFrequency |-> One \div 2,
     gustStrength |-> One \div 2]

\* { ...a, ...b }: the fields of a, overridden by the fields b has.
Spread_FirstWins(a, b) ==
    [f \in DOMAIN a \cup DOMAIN b |-> IF f \in DOMAIN a THEN a[f] ELSE b[f]]

Spread(a, b) ==
    [f \in DOMAIN a \cup DOMAIN b |-> IF f \in DOMAIN b THEN b[f] ELSE a[f]]

\* windConfig: { ...DEFAULT_WIND, ...wind }
windConfigOf(w) == Spread(DEFAULT_WIND, w)

\* DEFAULT_HILL: the configuration createHillTerrain merges its argument into.
DEFAULT_HILL ==
    [centerX |-> 0, centerZ |-> 0, radius |-> 10 * One, height |-> 3 * One,
     roundness |-> 2 * One, plateau |-> 0, skirt |-> 0,
     asymmetry |-> <<One, One>>, rotation |-> 0, ridge |-> 0,
     ridgeDirection |-> 0]

\* up: new THREE.Vector3(0, 1, 0)
Up0 == <<0, One, 0>>

\* The HeightSample [0, 0, 1, 0]: height 0 and the up normal.
FlatSample == <<0, 0, One, 0>>

\* createFlatTerrain(): the returned function ignores its arguments.
createFlatTerrain(x, z) == FlatSample

\* What the function returned by createHillTerrain(config) closes over: the
\* merged configuration c and cosRot, sinRot, cosRidge, sinRidge.
HillClosure(config) ==
    [c |-> config,
     cosRot |-> Cos(-config.rotation), sinRot |-> Sin(-config.rotation),
     cosRidge |-> Cos(-config.ridgeDirection),
     sinRidge |-> Sin(-config.ridgeDirection)]

\* <<rdx, rdz>> / asymmetry
Asymmetric(h, rdx, rdz) ==
    <<Quot(rdx, h.c.asymmetry[1]), Quot(rdz, h.c.asymmetry[2])>>

\* <<adx, adz>> for the offsets dx, dz from the centre: rotated, then
\* divided by asymmetry.
Rotated(h, dx, dz) ==
    Asymmetric(h, Mul(dx, h.cosRot) - Mul(dz, h.sinRot),
                  Mul(dx, h.sinRot) + Mul(dz, h.cosRot))

\* The hill-local coordinates <<adx, adz>> of the ground point (x, z).
HillLocal(h, x, z) == Rotated(h, x - h.c.centerX, z - h.c.centerZ)

\* dist for the hill-local point a.
LocalDist(a) == Hypot(a[1], a[2], 0)

\* dist: the hill-local radial distance of (x, z).
HillDist(h, x, z) == LocalDist(HillLocal(h, x, z))

\* The plateau remapping of the normalized distance t.
PlateauRemap(h, t) ==
    IF h.c.plateau > 0 /\ t < h.c.plateau THEN 0
    ELSE IF h.c.plateau > 0 THEN Quot(t - h.c.plateau, One - h.c.plateau)
    ELSE t

\* RidgeFactor as 1 - ridge * exp(..): the inner "1 -" left out.
RidgeFactor_NoComplement(h, a) ==
    IF h.c.ridge > 0
    THEN One - Mul(h.c.ridge,
                   ExpNeg(Abs(Mul(a[1], h.cosRidge) - Mul(a[2], h.sinRidge)) * 2))
    ELSE One

\* ridgeFactor at the hill-local point a; rx = adx*cosRidge - adz*sinRidge.
RidgeFactor(h, a) ==
    IF h.c.ridge > 0
    THEN One - Mul(h.c.ridge,
                   One - ExpNeg(Abs(Mul(a[1], h.cosRidge) - Mul(a[2], h.sinRidge)) * 2))
    ELSE One

\* HillFactor with Math.pow(t, roundness) for Math.pow(1 - t, roundness).
HillFactor_PowOfT(h, a, t) == Mul(Pow(t, h.c.roundness), RidgeFactor(h, a))

\* factor, for the remapped normalized distance t.
HillFactor(h, a, t) == Mul(Pow(One - t, h.c.roundness), RidgeFactor(h, a))

\* y: the height inside the hill (dist < radius) at the hill-local point a.
HillShape(h, a, dist) ==
    Mul(h.c.height, HillFactor(h, a, PlateauRemap(h, Quot(dist, h.c.radius))))

\* getHeight, from ldist on.
getHeightAt(h, a, ldist) ==
    IF ldist >= h.c.radius THEN 0 ELSE HillShape(h, a, ldist)

getHeightLocal(h, a) == getHeightAt(h, a, LocalDist(a))

\* getHeight: the inner height function the gradient is taken of.
getHeight(h, px, pz) == getHeightLocal(h, HillLocal(h, px, pz))

\* eps: the offset of the central differences.
eps == One \div 100

dhdx(h, x, z) ==
    Div((getHeight(h, x + eps, z) - getHeight(h, x - eps, z)) * One, 2 * eps)

dhdz(h, x, z) ==
    Div((getHeight(h, x, z + eps) - getHeight(h, x, z - eps)) * One, 2 * eps)

\* [-dhdx / len, 1 / len, -dhdz / len]
OverLen(gx, gz, len) == <<Quot(-gx, len), Quot(One, len), Quot(-gz, len)>>

\* The normal of the gradient (gx, gz): len = sqrt(gx*gx + 1 + gz*gz).
GradientNormal(gx, gz) == OverLen(gx, gz, Hypot(gx, One, gz))

\* InsideHill with the second early return (the skirt band) left out.
InsideHill_NoSkirtReturn(h, dist) == ~(dist >= h.c.radius + h.c.skirt)

\* Whether dist passes both early returns: dist >= effectiveRadius and
\* dist >= radius.
InsideHill(h, dist) ==
    ~(dist >= h.c.radius + h.c.skirt) /\ ~(dist >= h.c.radius)

HillHeightAt(h, a, dist) ==
    IF InsideHill(h, dist) THEN HillShape(h, a, dist) ELSE 0

HillHeightLocal(h, a) == HillHeightAt(h, a, LocalDist(a))

\* The height the function createHillTerrain(config) returns at (x, z).
HillHeight(h, x, z) == HillHeightLocal(h, HillLocal(h, x, z))

\* The normal the function createHillTerrain(config) returns at (x, z).
HillNormal(h, x, z) ==
    IF InsideHill(h, HillDist(h, x, z))
    THEN GradientNormal(dhdx(h, x, z), dhdz(h, x, z))
    ELSE Up0

\* The HeightSample [y, nx, ny, nz].
HeightSample(y, n) == <<y, n[1], n[2], n[3]>>

\* The function createHillTerrain(config) returns, applied to (x, z).
createHillTerrain(h, x, z) ==
    HeightSample(HillHeight(h, x, z), HillNormal(h, x, z))

\* A terrain function is a record: kind "flat", "hill" (with its closure
\* h) or "combined" (with its children, terrains).
Flat == [kind |-> "flat", h |-> HillClosure(DEFAULT_HILL), terrains |-> <<>>]

Hill(config) == [kind |-> "hill", h |-> HillClosure(config), terrains |-> <<>>]

Combined(ts) ==
    [kind |-> "combined", h |-> HillClosure(DEFAULT_HILL), terrains |-> ts]

\* A height function written by the user of Grass that returns the sample s
\* at every point.
Custom(s) ==
    [kind |-> "custom", h |-> HillClosure(DEFAULT_HILL), terrains |-> <<>>,
     returns |-> s]

\* A call of a flat, hill or user-written terrain function.
CallLeaf(f, x, z) ==
    IF f.kind = "hill" THEN createHillTerrain(f.h, x, z)
    ELSE IF f.kind = "custom" THEN f.returns
    ELSE createFlatTerrain(x, z)

\* Accumulate with totalY = y for totalY += y.
Accumulate_AssignY(acc, s) == <<s[1], acc[2] + s[2], acc[3] + s[4]>>

\* totalY += y; totalNx += nx; totalNz += nz
Accumulate(acc, s) == <<acc[1] + s[1], acc[2] + s[2], acc[3] + s[4]>>

RECURSIVE SumTerrains(_, _, _, _)
\* The loop of combineTerrains: <<totalY, totalNx, totalNz>> after the
\* first n children.
SumTerrains(ts, n, x, z) ==
    IF n = 0 THEN <<0, 0, 0>>
    ELSE Accumulate(SumTerrains(ts, n - 1, x, z), CallLeaf(ts[n], x, z))

\* CombinedSample returning the summed components without dividing by len.
CombinedSample_NoNormalize(total, len) == <<total[1], total[2], One, total[3]>>

\* [totalY, totalNx / len, 1 / len, totalNz / len]
CombinedSample(total, len) ==
    <<total[1], Quot(total[2], len), Quot(One, len), Quot(total[3], len)>>

\* The sample for the sums total: len = sqrt(totalNx^2 + 1 + totalNz^2).
CombinedOf(total) == CombinedSample(total, Hypot(total[2], One, total[3]))

\* The function combineTerrains(...ts) returns, applied to (x, z).
combineTerrains(ts, x, z) == CombinedOf(SumTerrains(ts, Len(ts), x, z))

\* A call heightFunction(x, z) of any terrain function.
Call(f, x, z) ==
    IF f.kind = "combined" THEN combineTerrains(f.terrains, x, z)
    ELSE CallLeaf(f, x, z)

----------------------------------------------------------------------------
(* The terrain functions under evaluation *)

\* The ground coordinates sampled: multiples of GridStep up to MaxCoord steps.
MaxCoord == 2

GridStep == (3 * One) \div 4

Coords == {k * GridStep : k \in -MaxCoord..MaxCoord}

\* The largest number of children given to combineTerrains.
MaxChildren == 3

\* The hill configurations: DEFAULT_HILL overridden field by field.
Centers == {<<0, 0>>, <<GridStep, -2 * GridStep>>}

Heights == {3 * One, -2 * One}

Roundnesses == {One \div 2, One, 2 * One}

Plateaus == {0, (4 * One) \div 10}

Skirts == {0, (3 * One) \div 2}

Asymmetries == {<<One, One>>, <<2 * One, One \div 2>>}

Rotations == {0, PI \div 6}

\* <<ridge, ridgeDirection>>
Ridges == {<<0, 0>>, <<(6 * One) \div 10, 0>>, <<(6 * One) \div 10, PI \div 4>>}

HillConfigs ==
    {[DEFAULT_HILL EXCEPT !.centerX = ctr[1], !.centerZ = ctr[2],
                          !.radius = 2 * One, !.height = h, !.roundness = r,
                          !.plateau = p, !.skirt = sk, !.asymmetry = asym,
                          !.rotation = rot, !.ridge = rdg[1],
                          !.ridgeDirection = rdg[2]] :
        ctr \in Centers, h \in Heights, r \in Roundnesses, p \in Plateaus,
        sk \in Skirts, asym \in Asymmetries, rot \in Rotations, rdg \in Ridges}

\* Overlapping cones, the children of the combined terrains.
ConeEast ==
    [DEFAULT_HILL EXCEPT !.centerX = 3 * One, !.radius = 5 * One,
                         !.height = 2 * One, !.roundness = One]

ConeWest ==
    [DEFAULT_HILL EXCEPT !.centerX = -3 * One, !.radius = 5 * One,
                         !.height = One, !.roundness = One]

ChildTerrains == {Flat, Hill(ConeEast), Hill(ConeWest)}

RECURSIVE SeqsUpTo(_, _)
\* The sequences over S of length at most n.
SeqsUpTo(S, n) ==
    IF n = 0 THEN {<<>>}
    ELSE LET shorter == SeqsUpTo(S, n - 1)
         IN  shorter \cup {Append(q, e) : q \in shorter, e \in S}

TerrainFunctions ==
    {Flat} \cup {Hill(c) : c \in HillConfigs}
           \cup {Combined(ts) : ts \in SeqsUpTo(ChildTerrains, MaxChildren)}

NoSample == <<>>

NoMaterial == <<>>

NoVertex == <<>>

NoMesh == <<>>

NoFrame == <<>>

\* The keys of the keydown events.
Keys == {"o", "O", "e", "E", "Enter"}

\* e.key === 'o' || e.key === 'O'
IsOrbitKey_LowerCaseOnly(key) == key = "o"

IsOrbitKey(key) == key = "o" \/ key = "O"

\* e.key === 'e' || e.key === 'E'
IsBindingKey(key) == key = "e" \/ key = "E"

\* enabled={!orbitMode}
ScrollControlsEnabled(orbit) == ~orbit

\* lookAt={!orbitMode ? cameraTargetRef : undefined}
CameraLookAt_Always(orbit) == "cameraTargetRef"

CameraLookAt(orbit) == IF ~orbit THEN "cameraTargetRef" ELSE "undefined"

\* {orbitMode && (<OrbitControls ... />)}
OrbitControlsMounted(orbit) == orbit

\* The controls in what App and Experience render with orbitMode = orbit.
RenderControls(orbit) ==
    [ScrollControls |-> [enabled |-> ScrollControlsEnabled(orbit)],
     PerspectiveCamera |-> [lookAt |-> CameraLookAt(orbit)],
     OrbitControls |-> [mounted |-> OrbitControlsMounted(orbit)]]

\* The state of App and Experience when they have mounted: useState(false),
\* useState(true), nothing scrolled, nothing written to window.
ControlsIdle ==
    /\ orbitMode = FALSE
    /\ enableScrollBinding = TRUE
    /\ pressed = [key \in Keys |-> 0]
    /\ scroll = [offset |-> 0]
    /\ sheet = [position |-> 0, length |-> 10 * One]
    /\ window = <<>>
    /\ jsx = RenderControls(FALSE)
    /\ frames = 0

NoTimer == <<>>

\* The components that may call useTheatreTextPatch.
Components == {"Experience", "Scene"}

NoHook == <<>>

NoCall == <<>>

\* The clone method of three.js, as THREE.Object3D.prototype has it at first.
OriginalClone == [kind |-> "original"]

\* No component has mounted the patch and clone has not been called.
PatchIdle ==
    /\ clone = OriginalClone
    /\ hooks = [c \in Components |-> NoHook]
    /\ mounts = 0
    /\ users = {}
    /\ cloned = NoCall

\* The state of App and LoadingScreen when they have mounted: nothing has
\* loaded, the overlay is visible, no timeout is pending.
LoadingIdle ==
    /\ progress = 0
    /\ isVisible = TRUE
    /\ timer = NoTimer
    /\ screenMounted = TRUE
    /\ loading = TRUE
    /\ canvasCreated = FALSE
    /\ finishedCalls = 0
    /\ since100 = 0

\* The state of what Grass keeps between renders, before Grass is mounted.
Unmounted ==
    /\ mesh = NoMesh
    /\ pendingEffects = {}
    /\ regenerated = FALSE
    /\ mountedAt = 0
    /\ drawn = NoFrame

\* The Grass props and memos, before Grass is rendered.
GrassIdle ==
    /\ size = <<0, 0>>
    /\ bladeCount = 0
    /\ bladeHeight = <<0, 0>>
    /\ terrainSegments = 0
    /\ rendered = FALSE
    /\ terrainGeometry = <<>>
    /\ instanceMatrices = <<>>
    /\ blades = <<>>
    /\ wind = DEFAULT_WIND
    /\ material = NoMaterial
    /\ elapsedTime = 0
    /\ shaded = NoVertex
    /\ defaulted = FALSE
    /\ Unmounted

TerrainInit ==
    /\ heightFunction \in TerrainFunctions
    /\ sample = NoSample
    /\ at = <<0, 0>>
    /\ GrassIdle
    /\ ControlsIdle
    /\ LoadingIdle
    /\ PatchIdle

\* A caller evaluates heightFunction(x, z).
Evaluate(x, z) ==
    /\ sample = NoSample
    /\ sample' = Call(heightFunction, x, z)
    /\ at' = <<x, z>>
    /\ UNCHANGED <<controlVars, loadingVars, patchVars, heightFunction, grassVars, windVars, lifecycleVars>>

\* The caller has used the sample and drops it.
Consume ==
    /\ sample # NoSample
    /\ sample' = NoSample
    /\ at' = <<0, 0>>
    /\ UNCHANGED <<controlVars, loadingVars, patchVars, heightFunction, grassVars, windVars, lifecycleVars>>

TerrainNext ==
    \/ \E x \in Coords, z \in Coords : Evaluate(x, z)
    \/ Consume

SpecTerrain == TerrainInit /\ [][TerrainNext]_vars

----------------------------------------------------------------------------
(* The vector, quaternion and matrix operations Grass calls *)

\* Vector3.normalize(): divideScalar(length() || 1).
Normalize(v) ==
    LET len == Hypot(v[1], v[2], v[3])
        d == IF len = 0 THEN One ELSE len
    IN  <<Quot(v[1], d), Quot(v[2], d), Quot(v[3], d)>>

\* Vector3.lengthSq()
LengthSq(v) == Mul(v[1], v[1]) + Mul(v[2], v[2]) + Mul(v[3], v[3])

\* Quaternion.normalize(); a quaternion is <<x, y, z, w>>.
QNormalize(q) ==
    LET l == ISqrt(q[1] * q[1] + q[2] * q[2] + q[3] * q[3] + q[4] * q[4])
    IN  IF l = 0 THEN <<0, 0, 0, One>>
        ELSE <<Quot(q[1], l), Quot(q[2], l), Quot(q[3], l), Quot(q[4], l)>>

\* Quaternion.setFromUnitVectors(vFrom, vTo)
setFromUnitVectors(vFrom, vTo) ==
    LET r == Mul(vFrom[1], vTo[1]) + Mul(vFrom[2], vTo[2])
                 + Mul(vFrom[3], vTo[3]) + One
    IN  IF r <= 0
        THEN IF Abs(vFrom[1]) > Abs(vFrom[3])
             THEN QNormalize(<<-vFrom[2], vFrom[1], 0, 0>>)
             ELSE QNormalize(<<0, -vFrom[3], vFrom[2], 0>>)
        ELSE QNormalize(
                 <<Mul(vFrom[2], vTo[3]) - Mul(vFrom[3], vTo[2]),
                   Mul(vFrom[3], vTo[1]) - Mul(vFrom[1], vTo[3]),
                   Mul(vFrom[1], vTo[2]) - Mul(vFrom[2], vTo[1]),
                   r>>)

\* Quaternion.setFromAxisAngle(axis, angle)
setFromAxisAngle(axis, angle) ==
    LET halfAngle == Div(angle, 2)
        sn == Sin(halfAngle)
    IN  <<Mul(axis[1], sn), Mul(axis[2], sn), Mul(axis[3], sn), Cos(halfAngle)>>

\* Quaternion.multiply(q): this * q.
QMultiply(a, b) ==
    <<Mul(a[1], b[4]) + Mul(a[4], b[1]) + Mul(a[2], b[3]) - Mul(a[3], b[2]),
      Mul(a[2], b[4]) + Mul(a[4], b[2]) + Mul(a[3], b[1]) - Mul(a[1], b[3]),
      Mul(a[3], b[4]) + Mul(a[4], b[3]) + Mul(a[1], b[2]) - Mul(a[2], b[1]),
      Mul(a[4], b[4]) - Mul(a[1], b[1]) - Mul(a[2], b[2]) - Mul(a[3], b[3])>>

\* Matrix4.compose(position, quaternion, scale): the 16 elements, column
\* after column.
compose(position, q, scale) ==
    LET x2 == q[1] + q[1]
        y2 == q[2] + q[2]
        z2 == q[3] + q[3]
        xx == Mul(q[1], x2)
        xy == Mul(q[1], y2)
        xz == Mul(q[1], z2)
        yy == Mul(q[2], y2)
        yz == Mul(q[2], z2)
        zz == Mul(q[3], z2)
        wx == Mul(q[4], x2)
        wy == Mul(q[4], y2)
        wz == Mul(q[4], z2)
        sx == scale[1]
        sy == scale[2]
        sz == scale[3]
    IN  <<Mul(One - (yy + zz), sx), Mul(xy + wz, sx), Mul(xz - wy, sx), 0,
          Mul(xy - wz, sy), Mul(One - (xx + zz), sy), Mul(yz + wx, sy), 0,
          Mul(xz + wy, sz), Mul(yz - wx, sz), Mul(One - (xx + yy), sz), 0,
          position[1], position[2], position[3], One>>

\* new THREE.PlaneGeometry(width, height, segments, segments): the vertices
\* (x, -y, 0), row after row.
PlaneGeometry(width, height, segments) ==
    LET gridX1 == segments + 1
        segment_width == Div(width, segments)
        segment_height == Div(height, segments)
    IN  [i \in 1..(gridX1 * gridX1) |->
            LET ix == (i - 1) % gridX1
                iy == (i - 1) \div gridX1
                x == ix * segment_width - Div(width, 2)
                y == iy * segment_height - Div(height, 2)
            IN  <<x, -y, 0>>]

----------------------------------------------------------------------------
(* The Grass component *)

\* The largest bladeCount rendered.
MaxBlades == 1

\* The values Math.random() returns: 0 <= r < 1.
RandomValues == {0, (4 * One) \div 10, One - 1}

Sizes == {<<6 * One, 2 * One>>}

BladeHeights ==
    {<<(3 * One) \div 10, (8 * One) \div 10>>, <<One \div 2, One \div 2>>,
     <<(8 * One) \div 10, (3 * One) \div 10>>}

\* A hill that is not symmetric in z.
HillSouth ==
    [DEFAULT_HILL EXCEPT !.centerZ = One, !.radius = 3 * One, !.roundness = One]

GrassTerrains ==
    {Flat, Hill(HillSouth), Combined(<<Hill(ConeEast), Hill(ConeWest)>>)}

\* terrainGeometry: the plane's vertices with z set to the height at the
\* vertex's (x, y).
TerrainGeometryOf(sz, f, segments) ==
    LET vertices == PlaneGeometry(sz[1], sz[2], segments)
    IN  [i \in DOMAIN vertices |->
            LET x == vertices[i][1]
                z == vertices[i][2]
                height == Call(f, x, z)[1]
            IN  <<x, z, height>>]

\* The mesh rotation [-Math.PI / 2, 0, 0] applied to a vertex: the world
\* position (x, y*cos - z*sin, y*sin + z*cos) with cos = 0 and sin = -1.
TerrainMeshWorld(v) == <<v[1], v[3], -v[2]>>

\* BladePosition with the sample destructured one place off: ny for height.
BladePosition_NormalForHeight(x, s, z) == <<x, s[3], z>>

\* position3.set(x, height, z) for the sample s taken at (x, z).
BladePosition(x, s, z) == <<x, s[1], z>>

\* BladeCoord without the centring: Math.random() * extent.
BladeCoord_NotCentred(r, extent) == Mul(r, extent)

\* x and z of a blade from their random draws.
BladeCoord(r, extent) == Mul(r - One \div 2, extent)

\* BladeScaleY with the range taken as max, not max - min.
BladeScaleY_RangeIsMax(r, bh) == bh[1] + Mul(r, bh[2])

\* scaleY of a blade from its random draw.
BladeScaleY(r, bh) == bh[1] + Mul(r, bh[2] - bh[1])

\* One iteration of the loop of instanceMatrices, with the four values
\* r = <<r1, r2, r3, r4>> that Math.random() returns in it.
Blade(r, sz, bh, f) ==
    LET x == BladeCoord(r[1], sz[1])
        z == BladeCoord(r[2], sz[2])
        s == Call(f, x, z)
        scaleY == BladeScaleY(r[3], bh)
        rotationY == Mul(r[4], PI * 2)
        position3 == BladePosition(x, s, z)
        normalized == Normalize(<<s[2], s[3], s[4]>>)
        normal == IF LengthSq(normalized) < 1 THEN Up0 ELSE normalized
        aligned == setFromUnitVectors(Up0, normal)
        rotQuat == setFromAxisAngle(normal, rotationY)
        quaternion == QMultiply(aligned, rotQuat)
        scaleVec == <<One, scaleY, One>>
    IN  [x |-> x, z |-> z, sample |-> s, rotationY |-> rotationY,
         position |-> position3, normal |-> normal,
         quaternion |-> quaternion, scale |-> scaleVec,
         matrix |-> compose(position3, quaternion, scaleVec)]

\* matrices after the loop: matrix.toArray(matrices, i * 16) for each blade.
MatricesOf(bs) ==
    [k \in 1..(16 * Len(bs)) |-> bs[((k - 1) \div 16) + 1].matrix[((k - 1) % 16) + 1]]

GrassInit ==
    /\ heightFunction \in GrassTerrains
    /\ sample = NoSample
    /\ at = <<0, 0>>
    /\ size \in Sizes
    /\ bladeCount \in 0..MaxBlades
    /\ bladeHeight \in BladeHeights
    /\ terrainSegments = 2
    /\ rendered = FALSE
    /\ terrainGeometry = <<>>
    /\ instanceMatrices = <<>>
    /\ blades = <<>>
    /\ wind = DEFAULT_WIND
    /\ material = NoMaterial
    /\ elapsedTime = 0
    /\ shaded = NoVertex
    /\ defaulted = FALSE
    /\ Unmounted
    /\ ControlsIdle
    /\ LoadingIdle
    /\ PatchIdle

\* windDirection: the unit vector of the wind's direction.
windDirection(windConfig) == <<Cos(windConfig.direction), Sin(windConfig.direction)>>

\* The uniforms of the new THREE.ShaderMaterial (the colours left out).
MaterialOf(windConfig) ==
    [uTime |-> 0,
     uWindStrength |-> windConfig.strength,
     uWindSpeed |-> windConfig.speed,
     uWindDirection |-> windDirection(windConfig),
     uTurbulence |-> windConfig.turbulence,
     uGustFrequency |-> windConfig.gustFrequency,
     uGustStrength |-> windConfig.gustStrength]

\* The array of the instanceMatrix of a new THREE.InstancedMesh of count
\* instances: new Float32Array(count * 16).  (Later releases of three.js
\* fill it with identity matrices; neither is a generated transform.)
NewInstanceMatrix(count) == [k \in 1..(16 * count) |-> 0]

\* The values of the four calls of Math.random() in one iteration.
RandomDraws == RandomValues \X RandomValues \X RandomValues \X RandomValues

\* The function of the instanceMatrices memo: the loop over n blades, each
\* with four values of Math.random() out of draws.
Generate(n, sz, bh, f, draws) ==
    \E rs \in [1..n -> draws] :
        /\ blades' = [i \in 1..n |-> Blade(rs[i], sz, bh, f)]
        /\ instanceMatrices' = MatricesOf(blades')

\* The first render of Grass and its commit: the memos terrainGeometry,
\* instanceMatrices and material are computed from the props, the
\* instancedMesh is created, and the effects are scheduled.
FirstRender(draws) ==
    /\ ~rendered
    /\ rendered' = TRUE
    /\ terrainGeometry' = TerrainGeometryOf(size, heightFunction, terrainSegments)
    /\ Generate(bladeCount, size, bladeHeight, heightFunction, draws)
    /\ material' = MaterialOf(windConfigOf(wind))
    /\ mesh' = [instanceMatrix |-> NewInstanceMatrix(bladeCount)]
    /\ pendingEffects' = {"instanceMatrices", "uniforms"}
    /\ regenerated' = TRUE
    /\ mountedAt' = elapsedTime
    /\ UNCHANGED <<controlVars, loadingVars, patchVars, terrainVars, size, bladeCount, bladeHeight, terrainSegments,
                   wind, elapsedTime, shaded, defaulted, drawn>>

Render == FirstRender(RandomDraws)

GrassNext == Render

SpecGrass == GrassInit /\ [][GrassNext]_vars

\* The samples the user-written height functions return: the zero normal,
\* two normals of squared length below 0.001, a normal longer than 1 and a
\* unit normal.
CustomSamples ==
    {<<0, 0, 0, 0>>, <<0, One \div 100, 0, 0>>,
     <<One \div 2, One \div 100, One \div 50, 0>>, <<0, 0, 2 * One, 0>>,
     <<One, 0, One, 0>>}

CustomTerrains == {Custom(s) : s \in CustomSamples}

\* bladeHeight when the prop is left out.
DefaultBladeHeight == <<(3 * One) \div 10, (8 * One) \div 10>>

\* Grass given a user-written height function.
CustomInit ==
    /\ heightFunction \in CustomTerrains
    /\ sample = NoSample
    /\ at = <<0, 0>>
    /\ size \in Sizes
    /\ bladeCount \in 0..MaxBlades
    /\ bladeHeight = DefaultBladeHeight
    /\ terrainSegments = 2
    /\ rendered = FALSE
    /\ terrainGeometry = <<>>
    /\ instanceMatrices = <<>>
    /\ blades = <<>>
    /\ wind = DEFAULT_WIND
    /\ material = NoMaterial
    /\ elapsedTime = 0
    /\ shaded = NoVertex
    /\ defaulted = FALSE
    /\ Unmounted
    /\ ControlsIdle
    /\ LoadingIdle
    /\ PatchIdle

SpecCustomTerrain == CustomInit /\ [][GrassNext]_vars

----------------------------------------------------------------------------
(* The wind: the useFrame callback of Grass and the vertex shader *)

\* The number of steps the canvas clock is followed.
MaxTicks == 2

\* The time between two readings of the clock.
TimeStep == (7 * One) \div 10

\* The wind props: DEFAULT_WIND overridden field by field, and the wind
\* prop Experience passes.
WindStrengths == {(3 * One) \div 10, (3 * One) \div 2}

WindSpeeds == {One, 2 * One}

WindDirections == {0, PI \div 6, -((2 * PI) \div 3)}

Turbulences == {0, (3 * One) \div 10}

ExperienceWind ==
    [strength |-> One \div 5, speed |-> One, direction |-> 0,
     turbulence |-> (3 * One) \div 10, gustFrequency |-> One,
     gustStrength |-> One \div 2]

WindConfigs ==
    {[DEFAULT_WIND EXCEPT !.strength = st, !.speed = sp, !.direction = d,
                          !.turbulence = tu] :
        st \in WindStrengths, sp \in WindSpeeds, d \in WindDirections,
        tu \in Turbulences} \cup {ExperienceWind}

\* bladeWidth when the prop is left out.
DefaultBladeWidth == One \div 20

\* The position attribute of bladeGeometry: its three vertices.
BladeVertices ==
    {<<-(DefaultBladeWidth \div 2), 0, 0>>, <<DefaultBladeWidth \div 2, 0, 0>>,
     <<0, One, 0>>}

\* The positions the vertex shader is run on: the vertices of bladeGeometry
\* and a vertex half way up the blade.
ShadedPositions == BladeVertices \cup {<<0, One \div 2, 0>>}

\* The values snoise returns: snoise is a function of its argument alone,
\* with values between -1 and 1; the model draws its value from this set.
NoiseValues == {-((7 * One) \div 10), 0, (6 * One) \div 10}

\* The draws of Math.random() of the blades the shader is run on.
ShadedBladeDraws ==
    {<<0, 0, 0, 0>>, <<(4 * One) \div 10, One - 1, (4 * One) \div 10, (4 * One) \div 10>>}

\* instanceMatrix * vec4(position, 1.0), the matrix m column after column.
ApplyMatrix4(m, v) ==
    <<Mul(m[1], v[1]) + Mul(m[5], v[2]) + Mul(m[9], v[3]) + m[13],
      Mul(m[2], v[1]) + Mul(m[6], v[2]) + Mul(m[10], v[3]) + m[14],
      Mul(m[3], v[1]) + Mul(m[7], v[2]) + Mul(m[11], v[3]) + m[15]>>

\* The instanceMatrix attribute of the i-th instance.
InstanceMatrix(i) == [k \in 1..16 |-> mesh.instanceMatrix[16 * (i - 1) + k]]

\* windTime
WindTime(u) == Mul(u.uTime, u.uWindSpeed)

\* windPhase = dot(worldPos.xz, uWindDirection) * 0.3
WindPhase(u, worldPos) ==
    Mul(Mul(worldPos[1], u.uWindDirection[1]) + Mul(worldPos[3], u.uWindDirection[2]),
        (3 * One) \div 10)

\* baseWind
BaseWind(u, worldPos) == Sin(WindTime(u) * 2 + WindPhase(u, worldPos))

\* turbulence, for the value n of snoise.
Turbulence(u, n) == Mul(n, u.uTurbulence)

\* gust
Gust(u) ==
    Mul(IntPow(Mul(Sin(Mul(WindTime(u), u.uGustFrequency)), One \div 2) + One \div 2, 4),
        u.uGustStrength)

\* WindEffect scaled by position.y once.
WindEffect_Linear(u, worldPos, y, n) ==
    Mul(Mul(BaseWind(u, worldPos) + Turbulence(u, n) + Gust(u), u.uWindStrength), y)

\* windEffect, for the height y = position.y along the blade.
WindEffect(u, worldPos, y, n) ==
    Mul(Mul(Mul(BaseWind(u, worldPos) + Turbulence(u, n) + Gust(u), u.uWindStrength),
            y), y)

\* Sway without the factor position.y.
Sway_NotWeighted(u, y, n) == Mul(Mul(n, u.uWindStrength), (3 * One) \div 10)

\* sway, for the value n of snoise.
Sway(u, y, n) == Mul(Mul(Mul(n, u.uWindStrength), y), (3 * One) \div 10)

\* What "Apply wind in direction" adds to pos.
MainWind(u, windEffect) ==
    <<Mul(windEffect, u.uWindDirection[1]), 0, Mul(windEffect, u.uWindDirection[2])>>

\* What the perpendicular sway adds to pos.
SwayWind(u, sway) ==
    <<Mul(sway, u.uWindDirection[2]), 0, -Mul(sway, u.uWindDirection[1])>>

Plus(a, b) == <<a[1] + b[1], a[2] + b[2], a[3] + b[3]>>

\* main() up to pos, with its uniforms u and its locals, for the values n1
\* and n2 of snoise.
VertexShader(u, position, worldPos, n1, n2) ==
    [uniforms |-> u, position |-> position, worldPos |-> worldPos, turbulenceNoise |-> n1,
     main |-> MainWind(u, WindEffect(u, worldPos, position[2], n1)),
     sway |-> SwayWind(u, Sway(u, position[2], n2)),
     pos |-> Plus(position,
                  Plus(MainWind(u, WindEffect(u, worldPos, position[2], n1)),
                       SwayWind(u, Sway(u, position[2], n2))))]

\* Grass rendered with one blade on a hill, before the first frame.
WindInit ==
    /\ heightFunction = Hill(HillSouth)
    /\ sample = NoSample
    /\ at = <<0, 0>>
    /\ size \in Sizes
    /\ bladeCount = 1
    /\ bladeHeight = DefaultBladeHeight
    /\ terrainSegments = 2
    /\ rendered = TRUE
    /\ terrainGeometry = TerrainGeometryOf(size, heightFunction, terrainSegments)
    /\ blades \in {<<Blade(r, size, bladeHeight, heightFunction)>> : r \in ShadedBladeDraws}
    /\ instanceMatrices = MatricesOf(blades)
    /\ wind \in WindConfigs
    /\ material = MaterialOf(windConfigOf(wind))
    /\ elapsedTime = 0
    /\ shaded = NoVertex
    /\ defaulted = FALSE
    /\ mesh = [instanceMatrix |-> instanceMatrices]
    /\ pendingEffects = {}
    /\ regenerated = TRUE
    /\ mountedAt = 0
    /\ drawn = NoFrame
    /\ ControlsIdle
    /\ LoadingIdle
    /\ PatchIdle

\* The clock of the canvas advances.
Tick ==
    /\ elapsedTime < MaxTicks * TimeStep
    /\ elapsedTime' = elapsedTime + TimeStep
    /\ UNCHANGED <<controlVars, loadingVars, patchVars, terrainVars, grassVars, wind, material, shaded, lifecycleVars>>

SetTime_Never == material' = material

\* material.uniforms.uTime.value = state.clock.elapsedTime
SetTime == material' = [material EXCEPT !.uTime = elapsedTime]

\* The useFrame callback of Grass.
AnimateWind ==
    /\ rendered
    /\ SetTime
    /\ UNCHANGED <<controlVars, loadingVars, patchVars, terrainVars, grassVars, wind, elapsedTime, shaded, lifecycleVars>>

\* The vertex shader runs on the vertex at position of the i-th instance.
Shade(i, position) ==
    /\ rendered
    /\ \E n1 \in NoiseValues, n2 \in NoiseValues :
           shaded' = VertexShader(material, position,
                                  ApplyMatrix4(InstanceMatrix(i), position), n1, n2)
    /\ UNCHANGED <<controlVars, loadingVars, patchVars, terrainVars, grassVars, wind, material, elapsedTime, lifecycleVars>>

WindNext ==
    \/ Tick
    \/ AnimateWind
    \/ \E i \in 1..bladeCount, position \in ShadedPositions : Shade(i, position)

SpecWind == WindInit /\ [][WindNext]_vars

----------------------------------------------------------------------------
(* The life of a mounted Grass: renders, effects and frames *)

LifecycleBladeCounts == {0, 1}

LifecycleBladeHeights == {DefaultBladeHeight, <<One \div 2, One \div 2>>}

\* Grass as Experience uses it leaves heightFunction out; a caller may as
\* well pass one, here the result of one call of createFlatTerrain().
LifecycleInit ==
    /\ defaulted \in BOOLEAN
    /\ heightFunction = Flat
    /\ sample = NoSample
    /\ at = <<0, 0>>
    /\ size \in Sizes
    /\ bladeCount \in LifecycleBladeCounts
    /\ bladeHeight = DefaultBladeHeight
    /\ terrainSegments = 2
    /\ rendered = FALSE
    /\ terrainGeometry = <<>>
    /\ instanceMatrices = <<>>
    /\ blades = <<>>
    /\ wind = ExperienceWind
    /\ material = NoMaterial
    /\ elapsedTime = 0
    /\ shaded = NoVertex
    /\ Unmounted
    /\ ControlsIdle
    /\ LoadingIdle
    /\ PatchIdle

\* Grass mounts.
Mount == FirstRender(ShadedBladeDraws)

\* The effect on [instanceMatrices]: the instance matrices are copied into
\* the mesh meshRef refers to.
UpdateInstanceMatrices_Skip == mesh' = mesh

UpdateInstanceMatrices ==
    IF "instanceMatrices" \in pendingEffects /\ mesh # NoMesh
    THEN mesh' = [instanceMatrix |-> instanceMatrices]
    ELSE mesh' = mesh

\* The effect on [material, baseColor, tipColor, windConfig, windDirection]:
\* the uniforms of the wind are set from windConfig; uTime is not touched.
UpdateUniforms ==
    IF "uniforms" \in pendingEffects
    THEN material' = [MaterialOf(windConfigOf(wind)) EXCEPT !.uTime = material.uTime]
    ELSE material' = material

\* React runs the effects the last commit scheduled.
FlushEffects ==
    /\ rendered
    /\ pendingEffects # {}
    /\ UpdateInstanceMatrices
    /\ UpdateUniforms
    /\ pendingEffects' = {}
    /\ UNCHANGED <<controlVars, loadingVars, patchVars, terrainVars, grassVars, wind, elapsedTime, shaded, defaulted,
                   regenerated, mountedAt, drawn>>

\* A frame of the canvas: the useFrame callback of Grass runs, then the
\* scene is drawn with the buffer the mesh holds and the uniforms the
\* material holds.
Frame ==
    /\ rendered
    /\ SetTime
    /\ drawn' = [instanceMatrix |-> mesh.instanceMatrix,
                 instanceMatrices |-> instanceMatrices,
                 uTime |-> material'.uTime,
                 elapsedTime |-> elapsedTime,
                 mountedAt |-> mountedAt]
    /\ UNCHANGED <<controlVars, loadingVars, patchVars, terrainVars, grassVars, wind, elapsedTime, shaded, defaulted,
                   mesh, pendingEffects, regenerated, mountedAt>>

\* The parent renders Grass again with bladeCount n and bladeHeight range
\* bh; sizeFresh, functionFresh and windFresh tell whether the size,
\* heightFunction and wind props are new objects (an array or object literal
\* in the parent's JSX is one at every render of the parent).  memo() lets
\* the render through when a prop differs by Object.is; the default value
\* of heightFunction is a new closure at every render.  The dependencies of
\* the memos are compared the same way.  The instancedMesh is constructed
\* anew when one of its args differs.
\* The wind prop is the object w: a new object when windFresh, else the
\* object of the last render.
RerenderWith(n, bh, sizeFresh, functionFresh, windFresh, w) ==
    LET functionChanged == functionFresh \/ defaulted
        generate == n # bladeCount \/ sizeFresh \/ bh # bladeHeight \/ functionChanged
    IN  /\ rendered
        /\ pendingEffects = {}
        /\ defaulted => ~functionFresh
        /\ ~windFresh => w = wind
        /\ n # bladeCount \/ sizeFresh \/ bh # bladeHeight \/ functionFresh \/ windFresh
        /\ bladeCount' = n
        /\ bladeHeight' = bh
        /\ wind' = w
        /\ terrainGeometry' = (IF sizeFresh \/ functionChanged
                               THEN TerrainGeometryOf(size, heightFunction, terrainSegments)
                               ELSE terrainGeometry)
        /\ IF generate
           THEN Generate(n, size, bh, heightFunction, ShadedBladeDraws)
           ELSE UNCHANGED <<blades, instanceMatrices>>
        /\ regenerated' = generate
        /\ material' = (IF windFresh THEN MaterialOf(windConfigOf(w)) ELSE material)
        /\ mesh' = (IF windFresh \/ n # bladeCount
                    THEN [instanceMatrix |-> NewInstanceMatrix(n)]
                    ELSE mesh)
        /\ pendingEffects' = (IF generate THEN {"instanceMatrices"} ELSE {})
                             \cup (IF windFresh THEN {"uniforms"} ELSE {})
        /\ UNCHANGED <<controlVars, loadingVars, patchVars, terrainVars, size, terrainSegments, rendered,
                       elapsedTime, shaded, defaulted, mountedAt, drawn>>

\* The parent renders Grass again; the wind prop has the fields and values
\* it had.
Rerender(n, bh, sizeFresh, functionFresh, windFresh) ==
    RerenderWith(n, bh, sizeFresh, functionFresh, windFresh, wind)

\* Grass unmounts: what it kept between renders is gone.
Unmount ==
    /\ rendered
    /\ rendered' = FALSE
    /\ terrainGeometry' = <<>>
    /\ instanceMatrices' = <<>>
    /\ blades' = <<>>
    /\ material' = NoMaterial
    /\ mesh' = NoMesh
    /\ pendingEffects' = {}
    /\ regenerated' = FALSE
    /\ UNCHANGED <<controlVars, loadingVars, patchVars, terrainVars, size, bladeCount, bladeHeight, terrainSegments,
                   wind, elapsedTime, shaded, defaulted, mountedAt, drawn>>

LifecycleNext ==
    \/ Mount
    \/ FlushEffects
    \/ Frame
    \/ \E n \in LifecycleBladeCounts, bh \in LifecycleBladeHeights,
          sizeFresh \in BOOLEAN, functionFresh \in BOOLEAN, windFresh \in BOOLEAN :
           Rerender(n, bh, sizeFresh, functionFresh, windFresh)
    \/ Unmount

SpecLifecycle == LifecycleInit /\ [][LifecycleNext]_vars

\* Mounts, frames and unmounts while the clock of the canvas runs; the
\* parent renders Grass again with a new wind object only.
RemountNext ==
    \/ Mount
    \/ FlushEffects
    \/ Frame
    \/ Rerender(bladeCount, bladeHeight, FALSE, FALSE, TRUE)
    \/ Unmount
    \/ Tick

SpecRemount == LifecycleInit /\ [][RemountNext]_vars

\* The wind objects a parent passes: none of the fields, some, or all.
WindObjects ==
    {<<>>,
     [strength |-> (3 * One) \div 2],
     [direction |-> PI \div 6, gustStrength |-> One],
     [speed |-> 2 * One, turbulence |-> 0, gustFrequency |-> 2 * One],
     ExperienceWind}

WindPropsInit ==
    /\ defaulted \in BOOLEAN
    /\ heightFunction = Flat
    /\ sample = NoSample
    /\ at = <<0, 0>>
    /\ size \in Sizes
    /\ bladeCount = 1
    /\ bladeHeight = DefaultBladeHeight
    /\ terrainSegments = 2
    /\ rendered = FALSE
    /\ terrainGeometry = <<>>
    /\ instanceMatrices = <<>>
    /\ blades = <<>>
    /\ wind \in WindObjects
    /\ material = NoMaterial
    /\ elapsedTime = 0
    /\ shaded = NoVertex
    /\ Unmounted
    /\ ControlsIdle
    /\ LoadingIdle
    /\ PatchIdle

\* The parent renders Grass again with the wind object w.
ChangeWind(w) == RerenderWith(bladeCount, bladeHeight, FALSE, FALSE, TRUE, w)

WindPropsNext ==
    \/ Mount
    \/ FlushEffects
    \/ Frame
    \/ \E w \in WindObjects : ChangeWind(w)
    \/ Unmount

SpecWindProps == WindPropsInit /\ [][WindPropsNext]_vars

----------------------------------------------------------------------------
(* The loading overlay: LoadingScreen and the loading flag of App *)

\* The delay of the timeout, in milliseconds.
HideDelay == 800

\* The time that passes in one step of the clock.
TimerStep == HideDelay \div 2

MaxCalls == 2

ProgressValues == {0, 50, 100}

\* The body of the effect on [progress, onFinished], for progress p: the
\* timeout set, or none.
StartTimer_Always(p) == [remaining |-> HideDelay]

StartTimer(p) == IF p = 100 THEN [remaining |-> HideDelay] ELSE NoTimer

\* App has rendered: LoadingScreen gets a new onFinished, so the cleanup
\* of its effect clears the timeout and the effect runs again.
RenderLoadingScreen ==
    timer' = (IF screenMounted THEN StartTimer(progress) ELSE NoTimer)

\* useProgress reports the progress p: LoadingScreen renders, the cleanup
\* of the effect clears the timeout and the effect runs again.
SetProgress(p) ==
    /\ p # progress
    /\ progress' = p
    /\ timer' = (IF screenMounted THEN StartTimer(p) ELSE NoTimer)
    /\ since100' = 0
    /\ UNCHANGED <<controlVars, patchVars, terrainVars, grassVars, windVars,
                   lifecycleVars,
                   isVisible, screenMounted, loading, canvasCreated, finishedCalls>>

\* TimerStep milliseconds pass.
Advance ==
    /\ \/ timer # NoTimer /\ timer.remaining > 0
       \/ progress = 100 /\ since100 < HideDelay
    /\ timer' = (IF timer # NoTimer /\ timer.remaining > 0
                 THEN [remaining |-> timer.remaining - TimerStep]
                 ELSE timer)
    /\ since100' = (IF progress = 100 /\ since100 < HideDelay
                    THEN since100 + TimerStep
                    ELSE since100)
    /\ UNCHANGED <<controlVars, patchVars, terrainVars, grassVars, windVars,
                   lifecycleVars,
                   progress, isVisible, screenMounted, loading, canvasCreated,
                   finishedCalls>>

\* The timeout fires: setIsVisible(false) and onFinished(), which is
\* setLoading(false) of App; if that changes loading, App renders again.
Fire ==
    /\ timer # NoTimer
    /\ timer.remaining = 0
    /\ finishedCalls < MaxCalls
    /\ isVisible' = FALSE
    /\ finishedCalls' = finishedCalls + 1
    /\ loading' = FALSE
    /\ IF loading THEN RenderLoadingScreen ELSE timer' = NoTimer
    /\ UNCHANGED <<controlVars, patchVars, terrainVars, grassVars, windVars,
                   lifecycleVars,
                   progress, screenMounted, canvasCreated, since100>>

\* onCreated of the Canvas: setLoading(false); if that changes loading,
\* App renders again.
CanvasCreated ==
    /\ ~canvasCreated
    /\ canvasCreated' = TRUE
    /\ loading' = FALSE
    /\ IF loading THEN RenderLoadingScreen ELSE timer' = timer
    /\ UNCHANGED <<controlVars, patchVars, terrainVars, grassVars, windVars,
                   lifecycleVars,
                   progress, isVisible, screenMounted, finishedCalls, since100>>

\* App unmounts, and LoadingScreen with it: the cleanup of the effect
\* clears the timeout.
UnmountLoadingScreen ==
    /\ screenMounted
    /\ screenMounted' = FALSE
    /\ timer' = NoTimer
    /\ UNCHANGED <<controlVars, patchVars, terrainVars, grassVars, windVars,
                   lifecycleVars,
                   progress, isVisible, loading, canvasCreated, finishedCalls,
                   since100>>

----------------------------------------------------------------------------
(* The camera controls: key handlers, scroll binding and rendered controls *)

MaxPresses == 3

MaxFrames == 2

ScrollOffsets == {0, One \div 4, One}

SequenceLengths == {10 * One, 6 * One}

\* Where the user may put the playhead in the studio.
StudioPositions == {0, 3 * One}

TotalPressed == pressed["o"] + pressed["O"] + pressed["e"] + pressed["E"] + pressed["Enter"]

\* App and Experience are mounted and their keydown listeners registered.
ControlsInit ==
    /\ heightFunction = Flat
    /\ sample = NoSample
    /\ at = <<0, 0>>
    /\ GrassIdle
    /\ orbitMode = FALSE
    /\ enableScrollBinding = TRUE
    /\ pressed = [key \in Keys |-> 0]
    /\ scroll = [offset |-> 0]
    /\ sheet \in [position : {0}, length : SequenceLengths]
    /\ window = <<>>
    /\ jsx = RenderControls(FALSE)
    /\ frames = 0
    /\ LoadingIdle
    /\ PatchIdle

\* A keydown event with e.key = key reaches window: the listener of App
\* and the listener of Experience run, and React renders both again; a
\* render of App renders LoadingScreen with a new onFinished.
KeyDown(key) ==
    /\ TotalPressed < MaxPresses
    /\ pressed' = [pressed EXCEPT ![key] = @ + 1]
    /\ orbitMode' = (IF IsOrbitKey(key) THEN ~orbitMode ELSE orbitMode)
    /\ enableScrollBinding' =
           (IF IsBindingKey(key) THEN ~enableScrollBinding ELSE enableScrollBinding)
    /\ jsx' = RenderControls(orbitMode')
    /\ IF IsOrbitKey(key) THEN RenderLoadingScreen ELSE timer' = timer
    /\ UNCHANGED <<patchVars, terrainVars, grassVars, windVars, lifecycleVars,
                   scroll, sheet, window, frames, progress, isVisible, screenMounted, loading,
                   canvasCreated, finishedCalls, since100>>

\* The user scrolls: ScrollControls, when enabled, moves its offset.
Scroll(offset) ==
    /\ jsx.ScrollControls.enabled
    /\ scroll' = [scroll EXCEPT !.offset = offset]
    /\ UNCHANGED <<loadingVars, patchVars, terrainVars, grassVars, windVars,
                   lifecycleVars, orbitMode,
                   enableScrollBinding, pressed, sheet, window, jsx, frames>>

\* The user moves the playhead of the timeline in the studio.
Scrub(position) ==
    /\ sheet' = [sheet EXCEPT !.position = position]
    /\ UNCHANGED <<loadingVars, patchVars, terrainVars, grassVars, windVars,
                   lifecycleVars, orbitMode,
                   enableScrollBinding, pressed, scroll, window, jsx, frames>>

\* !enableScrollBinding || orbitMode: the frame callback returns early.
\* (sheet and scroll are never null below SheetProvider and ScrollControls.)
Unbound_IgnoresOrbit == ~enableScrollBinding

Unbound == ~enableScrollBinding \/ orbitMode

\* The useFrame callback of Experience.
ExperienceFrame ==
    /\ frames < MaxFrames
    /\ frames' = frames + 1
    /\ IF Unbound
       THEN UNCHANGED <<sheet, window>>
       ELSE /\ sheet' = [sheet EXCEPT !.position = Mul(scroll.offset, sheet.length)]
            /\ window' = ("__sequencePosition" :> sheet'.position)
    /\ UNCHANGED <<loadingVars, patchVars, terrainVars, grassVars, windVars,
                   lifecycleVars, orbitMode,
                   enableScrollBinding, pressed, scroll, jsx>>

ControlsNext ==
    \/ \E key \in Keys : KeyDown(key)
    \/ \E offset \in ScrollOffsets : Scroll(offset)
    \/ \E position \in StudioPositions : Scrub(position)
    \/ ExperienceFrame

SpecControls == ControlsInit /\ [][ControlsNext]_vars

\* App has mounted with its LoadingScreen; the Canvas is yet to be created.
LoadingInit ==
    /\ heightFunction = Flat
    /\ sample = NoSample
    /\ at = <<0, 0>>
    /\ GrassIdle
    /\ ControlsIdle
    /\ LoadingIdle
    /\ PatchIdle

LoadingNext ==
    \/ \E p \in ProgressValues : SetProgress(p)
    \/ Advance
    \/ Fire
    \/ CanvasCreated
    \/ \E key \in {"o", "Enter"} : KeyDown(key)
    \/ UnmountLoadingScreen

SpecLoading == LoadingInit /\ [][LoadingNext]_vars

----------------------------------------------------------------------------
(* The clone patch: useTheatreTextPatch *)

MaxMounts == 4

\* An object of the scene. Its kind says how it clones: an "Object3D"
\* copies itself, the copy of a "Text" throws, and a "Custom" has a clone
\* method of its own, which throws.
Node(kind, name, x, visible, children) ==
    [kind |-> kind, name |-> name, position |-> <<x, 0, 0>>,
     rotation |-> <<0, x, 0>>, scale |-> <<One, One, One + x>>,
     visible |-> visible, children |-> children]

GrassMesh == Node("Object3D", "blade", 0, TRUE, <<>>)

Title == Node("Text", "title", One, FALSE, <<>>)

Label == Node("Text", "", 0, TRUE, <<>>)

Helper == Node("Custom", "helper", One, TRUE, <<>>)

\* The objects clone is called on: all get their clone from the prototype.
SceneObjects ==
    {GrassMesh, Title, Label,
     Node("Text", "panel", One, TRUE, <<>>),
     Node("Object3D", "scene", 0, TRUE, <<GrassMesh, Title>>),
     Node("Object3D", "", One, TRUE, <<Helper, GrassMesh>>),
     Node("Text", "", One, FALSE, <<Title, Helper, GrassMesh>>),
     Node("Object3D", "root", 0, TRUE,
          <<Node("Object3D", "group", One, FALSE, <<Helper>>), Label>>)}

\* The argument of clone(recursive), which may be left out.
RecursiveArguments == {"true", "false", "undefined"}

Thrown == [ok |-> FALSE]

Returned(value) == [ok |-> TRUE, value |-> value]

\* (this.name || 'unknown') + '_placeholder'
PlaceholderName_NoFallback(o) == o.name \o "_placeholder"

PlaceholderName(o) ==
    (IF o.name = "" THEN "unknown" ELSE o.name) \o "_placeholder"

\* The placeholder Group for the object o, with the children given.
Placeholder(o, children) ==
    [type |-> "Group", name |-> PlaceholderName(o), position |-> o.position,
     rotation |-> o.rotation, scale |-> o.scale, visible |-> o.visible,
     children |-> children]

\* The values of the calls that returned, in order.
ReturnedValues(outcomes) ==
    LET returned == SelectSeq(outcomes, LAMBDA r : r.ok)
    IN  [i \in 1..Len(returned) |-> returned[i].value]

RECURSIVE Invoke(_, _, _, _)

\* child.clone(recursive) while Object3D.prototype.clone is prototype: the
\* clone method of the child itself if its class has one, else the
\* prototype's.
CallMethod(prototype, child, recursive) ==
    IF child.kind = "Custom"
    THEN Thrown
    ELSE Invoke(prototype, prototype, child, recursive)

\* method.call(o, recursive) while Object3D.prototype.clone is prototype.
\* The clone of three.js copies the object and, unless recursive is false,
\* adds child.clone() for each child; the patch tries the method it
\* wraps and on an error returns a placeholder.
Invoke(method, prototype, o, recursive) ==
    IF method.kind = "original"
    THEN LET outcomes ==
                 IF recursive = "false"
                 THEN <<>>
                 ELSE [i \in 1..Len(o.children) |->
                          CallMethod(prototype, o.children[i], "undefined")]
         IN  IF o.kind = "Text" \/ \E i \in DOMAIN outcomes : ~outcomes[i].ok
             THEN Thrown
             ELSE Returned([type |-> o.kind, name |-> o.name,
                            position |-> o.position, rotation |-> o.rotation,
                            scale |-> o.scale, visible |-> o.visible,
                            children |-> ReturnedValues(outcomes)])
    ELSE LET tried == Invoke(method.originalClone, prototype, o, recursive)
         IN  IF tried.ok
             THEN tried
             ELSE Returned(Placeholder(o,
                      IF recursive = "true" /\ Len(o.children) > 0
                      THEN ReturnedValues(
                               [i \in 1..Len(o.children) |->
                                   CallMethod(prototype, o.children[i], "true")])
                      ELSE <<>>))

\* The cleanup of the effect of component c sets the prototype's clone.
CleanupClone_Keeps(c) == clone

CleanupClone(c) == hooks[c].originalClone

\* The effect of useTheatreTextPatch runs in component c: it captures the
\* method installed and installs a new function that wraps it.
MountPatch(c) ==
    /\ c \in users
    /\ hooks[c] = NoHook
    /\ mounts < MaxMounts
    /\ mounts' = mounts + 1
    /\ hooks' = [hooks EXCEPT ![c] = [originalClone |-> clone]]
    /\ clone' = [kind |-> "patch", id |-> mounts + 1, originalClone |-> clone]
    /\ UNCHANGED <<controlVars, loadingVars, terrainVars, grassVars, windVars,
                   lifecycleVars, users, cloned>>

\* Component c unmounts: the cleanup of its effect runs.
UnmountPatch(c) ==
    /\ hooks[c] # NoHook
    /\ clone' = CleanupClone(c)
    /\ hooks' = [hooks EXCEPT ![c] = NoHook]
    /\ UNCHANGED <<controlVars, loadingVars, terrainVars, grassVars, windVars,
                   lifecycleVars, mounts, users, cloned>>

\* o.clone(recursive) is called on an object that has the prototype's clone.
CallClone(o, recursive) ==
    /\ cloned' = [source |-> o, recursive |-> recursive, method |-> clone,
                  result |-> Invoke(clone, clone, o, recursive)]
    /\ UNCHANGED <<controlVars, loadingVars, terrainVars, grassVars, windVars,
                   lifecycleVars, clone, hooks, mounts, users>>

\* One component calls the hook, as its documentation asks, or several do.
PatchInit ==
    /\ heightFunction = Flat
    /\ sample = NoSample
    /\ at = <<0, 0>>
    /\ GrassIdle
    /\ ControlsIdle
    /\ LoadingIdle
    /\ clone = OriginalClone
    /\ hooks = [c \in Components |-> NoHook]
    /\ mounts = 0
    /\ users \in {{"Experience"}, Components}
    /\ cloned = NoCall

PatchNext ==
    \/ \E c \in Components : MountPatch(c)
    \/ \E c \in Components : UnmountPatch(c)
    \/ \E o \in SceneObjects, recursive \in RecursiveArguments :
           CallClone(o, recursive)

SpecPatch == PatchInit /\ [][PatchNext]_vars

----------------------------------------------------------------------------
(* Properties of the terrain functions *)

Sampled == sample # NoSample

HillSampled == Sampled /\ heightFunction.kind = "hill"

CombinedSampled == Sampled /\ heightFunction.kind = "combined"

Up == Up0

NormalOf(s) == <<s[2], s[3], s[4]>>

\* The squared length of n is 1 up to the rounding of the components.
UnitLength(n) ==
    Abs(n[1] * n[1] + n[2] * n[2] + n[3] * n[3] - One * One) <= 4 * One

Center(c) == <<c.centerX, c.centerZ>>

\* C1: a hill sampled at a point whose hill-local distance is at least
\* radius (the skirt band and everything beyond it) returns height 0 and
\* the normal (0, 1, 0).
C1_FlatFromRadiusOutward ==
    HillSampled /\ HillDist(heightFunction.h, at[1], at[2]) >= heightFunction.h.c.radius
        => sample = <<0, 0, One, 0>>

\* A sample taken in the skirt band of a hill with a skirt.
C1_Witness ==
    /\ HillSampled
    /\ heightFunction.h.c.skirt > 0
    /\ HillDist(heightFunction.h, at[1], at[2]) >= heightFunction.h.c.radius
    /\ HillDist(heightFunction.h, at[1], at[2])
           < heightFunction.h.c.radius + heightFunction.h.c.skirt
    /\ sample = FlatSample

\* C2: a hill sampled exactly at its centre returns the configured peak
\* height and the normal (0, 1, 0), whatever the roundness, plateau, ridge,
\* ridge direction, rotation and asymmetry.
C2_PeakAtCenter ==
    HillSampled /\ at = Center(heightFunction.h.c)
        => sample = <<heightFunction.h.c.height, 0, One, 0>>

\* A sample at the centre of an off-origin, rotated, asymmetric hill with
\* a plateau and a ridge.
C2_Witness ==
    /\ HillSampled
    /\ at = Center(heightFunction.h.c)
    /\ at # <<0, 0>>
    /\ heightFunction.h.c.ridge > 0
    /\ heightFunction.h.c.ridgeDirection # 0
    /\ heightFunction.h.c.plateau > 0
    /\ heightFunction.h.c.rotation # 0
    /\ heightFunction.h.c.asymmetry # <<One, One>>
    /\ sample[1] = heightFunction.h.c.height

Monotone(c) == c.height >= 0 /\ c.roundness >= One /\ c.ridge = 0

\* C3: for a hill with height >= 0, roundness >= 1 and ridge = 0, no point
\* at a hill-local distance at least that of the sampled point is higher
\* than the sampled point, and the sampled point is not higher than the
\* centre; for every plateau.
C3_NonIncreasingWithDistance ==
    HillSampled /\ Monotone(heightFunction.h.c) =>
        /\ sample[1] <= HillHeight(heightFunction.h, heightFunction.h.c.centerX,
                                   heightFunction.h.c.centerZ)
        /\ \A x \in Coords, z \in Coords :
               HillDist(heightFunction.h, x, z)
                       >= HillDist(heightFunction.h, at[1], at[2])
                   => HillHeight(heightFunction.h, x, z) <= sample[1]

\* A sample on the slope of such a hill with a plateau, with a strictly
\* lower point of the hill farther out.
C3_Witness ==
    /\ HillSampled
    /\ Monotone(heightFunction.h.c)
    /\ heightFunction.h.c.plateau > 0
    /\ \E x \in Coords, z \in Coords :
           /\ HillDist(heightFunction.h, x, z)
                  > HillDist(heightFunction.h, at[1], at[2])
           /\ HillHeight(heightFunction.h, x, z) > 0
           /\ HillHeight(heightFunction.h, x, z) < sample[1]
    /\ sample[1] < heightFunction.h.c.height

\* The height of a flat or hill terrain function at (x, z).
LeafHeight(f, x, z) == IF f.kind = "hill" THEN HillHeight(f.h, x, z) ELSE 0

RECURSIVE SumOfHeights(_, _, _)
\* The sum of the heights of the terrain functions ts at (x, z).
SumOfHeights(ts, x, z) ==
    IF ts = <<>> THEN 0
    ELSE LeafHeight(Head(ts), x, z) + SumOfHeights(Tail(ts), x, z)

\* The height of any terrain function at (x, z).
HeightAt(f, x, z) ==
    IF f.kind = "combined" THEN SumOfHeights(f.terrains, x, z)
    ELSE LeafHeight(f, x, z)

\* The central-difference gradient of the height of f at (x, z).
HeightGradient(f, x, z) ==
    <<Div((HeightAt(f, x + eps, z) - HeightAt(f, x - eps, z)) * One, 2 * eps),
      Div((HeightAt(f, x, z + eps) - HeightAt(f, x, z - eps)) * One, 2 * eps)>>

RECURSIVE SumOfNormals(_, _, _)
\* The sums of the x and of the z components of the normals of ts at (x, z).
SumOfNormals(ts, x, z) ==
    IF ts = <<>> THEN <<0, 0>>
    ELSE LET n == CallLeaf(Head(ts), x, z)
             rest == SumOfNormals(Tail(ts), x, z)
         IN  <<n[2] + rest[1], n[4] + rest[2]>>

C5_CombinedHeightIsSum ==
    CombinedSampled
        => sample[1] = SumOfHeights(heightFunction.terrains, at[1], at[2])

\* A combined sample over two hills that are both above ground there.
C5_Witness ==
    /\ CombinedSampled
    /\ Len(heightFunction.terrains) = 2
    /\ LeafHeight(heightFunction.terrains[1], at[1], at[2]) > 0
    /\ LeafHeight(heightFunction.terrains[2], at[1], at[2]) > 0
    /\ sample[1] = LeafHeight(heightFunction.terrains[1], at[1], at[2])
                     + LeafHeight(heightFunction.terrains[2], at[1], at[2])

----------------------------------------------------------------------------
(* Properties of the Grass component *)

\* The elements of instanceMatrices that hold the i-th blade's position.
BufferPosition(i) ==
    <<instanceMatrices[16 * (i - 1) + 13], instanceMatrices[16 * (i - 1) + 14],
      instanceMatrices[16 * (i - 1) + 15]>>

\* The elements of instanceMatrices that hold the image of the i-th blade's
\* local Y axis (the second column of its matrix).
BufferYAxis(i) ==
    <<instanceMatrices[16 * (i - 1) + 5], instanceMatrices[16 * (i - 1) + 6],
      instanceMatrices[16 * (i - 1) + 7]>>

\* The base height a blade generated at (x, z) receives.
BladeBaseHeight(x, z) == BladePosition(x, Call(heightFunction, x, z), z)[2]

\* C7: after the terrain mesh's rotation, every terrain vertex at the world
\* ground point (x, z) has the height heightFunction(x, z).height, the base
\* height of a blade generated at (x, z).
C7_MeshAgreesWithBlades ==
    rendered =>
        \A i \in DOMAIN terrainGeometry :
            LET w == TerrainMeshWorld(terrainGeometry[i])
            IN  w[2] = BladeBaseHeight(w[1], w[3])

\* C8: the generator produces exactly bladeCount transforms, a buffer of
\* 16 * bladeCount numbers, and every blade position lies within
\* [-width/2, width/2] x [-depth/2, depth/2].
C8_CountAndBounds ==
    rendered =>
        /\ Len(instanceMatrices) = 16 * bladeCount
        /\ Len(blades) = bladeCount
        /\ \A i \in 1..bladeCount :
               /\ -Div(size[1], 2) <= BufferPosition(i)[1]
               /\ BufferPosition(i)[1] <= Div(size[1], 2)
               /\ -Div(size[2], 2) <= BufferPosition(i)[3]
               /\ BufferPosition(i)[3] <= Div(size[2], 2)

\* A generated blade on the edge x = -width/2 of the area.
C8_Witness ==
    /\ rendered
    /\ bladeCount >= 1
    /\ Len(instanceMatrices) = 16 * bladeCount
    /\ BufferPosition(bladeCount)[1] = -Div(size[1], 2)
    /\ BufferPosition(bladeCount)[3] > 0

\* C9: when hMin <= hMax, every blade's Y scale lies in [hMin, hMax] and
\* its X and Z scales are exactly 1.
C9_ScaleInRange ==
    rendered /\ bladeHeight[1] <= bladeHeight[2] =>
        \A i \in 1..bladeCount :
            /\ bladeHeight[1] <= blades[i].scale[2]
            /\ blades[i].scale[2] <= bladeHeight[2]
            /\ blades[i].scale[1] = One
            /\ blades[i].scale[3] = One

\* A blade strictly inside a proper range hMin < hMax.
C9_Witness ==
    /\ rendered
    /\ bladeCount >= 1
    /\ bladeHeight[1] < bladeHeight[2]
    /\ blades[1].scale[2] > bladeHeight[1]
    /\ blades[1].scale[2] < bladeHeight[2]

\* C10: every blade's transform has the position
\* (x, heightFunction(x, z).height, z) of its own sampled (x, z); on the
\* flat terrain its position.y is 0 and it is oriented to the normal
\* (0, 1, 0): its local Y axis is mapped to (0, scaleY, 0).
C10_PositionOnTerrain ==
    rendered =>
        \A i \in 1..bladeCount :
            /\ BufferPosition(i)
                   = <<blades[i].x,
                       Call(heightFunction, blades[i].x, blades[i].z)[1],
                       blades[i].z>>
            /\ heightFunction.kind = "flat" =>
                   /\ BufferPosition(i)[2] = 0
                   /\ blades[i].normal = Up
                   /\ BufferYAxis(i) = <<0, blades[i].scale[2], 0>>

\* A blade standing on the slope of a hill, above ground, turned by a yaw.
C10_Witness ==
    /\ rendered
    /\ bladeCount >= 1
    /\ heightFunction.kind = "hill"
    /\ BufferPosition(1)[2] > 0
    /\ blades[1].sample[2] # 0
    /\ blades[1].rotationY > 0

\* Whether the vectors a and b differ by at most tol in every component.
Near(a, b, tol) == \A k \in 1..3 : Abs(a[k] - b[k]) <= tol

\* The rounding allowed in a component of a rotated vector.
RotationTolerance == One \div 50

\* The image of the local up axis (0, 1, 0) under the i-th blade's rotation
\* and scale, if the rotation maps the up axis onto the normal n.
ScaledNormal(n, scaleY) == <<Mul(n[1], scaleY), Mul(n[2], scaleY), Mul(n[3], scaleY)>>

\* C11: for every generated blade and every yaw, the blade's rotation maps
\* its local up axis (0, 1, 0) onto the sampled surface normal (the second
\* column of its matrix is scaleY times the normal), also on sloped terrain
\* where the normal differs from up.
C11_UpMapsOntoNormal ==
    rendered =>
        \A i \in 1..bladeCount :
            Near(BufferYAxis(i),
                 ScaledNormal(blades[i].normal, blades[i].scale[2]),
                 RotationTolerance)

\* The threshold 0.001 of the squared length.
DegenerateBelow == One \div 1000

\* C12: a blade whose sampled normal is degenerate (squared length below
\* 0.001, zero included) gets the up axis (0, 1, 0) as its normal before its
\* orientation is computed, and generation completes.
C12_DegenerateNormalReplaced ==
    rendered =>
        /\ Len(blades) = bladeCount
        /\ \A i \in 1..bladeCount :
               LengthSq(NormalOf(blades[i].sample)) < DegenerateBelow
                   => blades[i].normal = Up

----------------------------------------------------------------------------
(* Properties of the wind *)

Shaded == shaded # NoVertex

Zero3 == <<0, 0, 0>>

\* The rounding allowed in a product of two displacement components.
WindTolerance == One \div 500

\* C13: for a vertex at the root of the blade (position.y = 0) the main
\* wind term and the sway term are both exactly 0 and pos is position, for
\* every time and every wind configuration.
C13_RootPinned ==
    Shaded /\ shaded.position[2] = 0 =>
        /\ shaded.main = Zero3
        /\ shaded.sway = Zero3
        /\ shaded.pos = shaded.position

\* A root vertex shaded at a time after 0 with nonzero noise, in the same
\* frame as the tip would be displaced along x: at the tip the main term's
\* x component is nonzero.
C13_Witness ==
    /\ Shaded
    /\ shaded.position[2] = 0
    /\ shaded.position[1] # 0
    /\ shaded.turbulenceNoise # 0
    /\ shaded.uniforms.uTime > 0
    /\ shaded.uniforms.uTurbulence > 0
    /\ MainWind(shaded.uniforms, WindEffect(shaded.uniforms, shaded.worldPos, One,
                                     shaded.turbulenceNoise))[1] # 0
    /\ shaded.pos = shaded.position

\* The main wind term of a vertex at the same world position at the tip
\* of the blade (position.y = 1).
MainAtTip ==
    MainWind(shaded.uniforms, WindEffect(shaded.uniforms, shaded.worldPos, One,
                                  shaded.turbulenceNoise))

HeightSquared == Mul(shaded.position[2], shaded.position[2])

----------------------------------------------------------------------------
(* Properties of the life of a mounted Grass *)

\* The values the instanceMatrices memo names as its dependencies.
GenerationInputs == <<bladeCount, size, bladeHeight, heightFunction>>

\* C14: between two renders of a mounted Grass the instance buffer is
\* computed anew when bladeCount, size, bladeHeight or heightFunction
\* changed, and is left as it was when none of them changed.
C14_RegeneratedOnlyOnChange ==
    [][(rendered /\ rendered') =>
          /\ GenerationInputs' # GenerationInputs => regenerated'
          /\ GenerationInputs' = GenerationInputs =>
                 instanceMatrices' = instanceMatrices]_vars

\* C15: in every frame that is drawn, the buffer of the mesh holds the
\* instance matrices the last render of Grass computed.
C15_DrawnBufferIsCurrent ==
    drawn # NoFrame => drawn.instanceMatrix = drawn.instanceMatrices

\* C16 as stated: in every frame that is drawn, the time of the wind is
\* the time since Grass was mounted.
C16_TimeSinceMount ==
    drawn # NoFrame => drawn.uTime = drawn.elapsedTime - drawn.mountedAt

\* C16: in every frame that is drawn, the time of the wind is the elapsed
\* time of the clock of the canvas, whenever Grass was mounted and whenever
\* its material was created.
C16_TimeIsClockTime ==
    drawn # NoFrame => drawn.uTime = drawn.elapsedTime

\* A frame is drawn some time after a mount that happened with the clock
\* already running.
C16_Witness ==
    /\ drawn # NoFrame
    /\ drawn.mountedAt > 0
    /\ drawn.elapsedTime > drawn.mountedAt
    /\ drawn.uTime > 0

----------------------------------------------------------------------------
(* Properties of the camera controls *)

Odd(n) == n % 2 = 1

\* C18: after any sequence of keydown events, orbit mode is on iff the
\* events with key o or O are odd in number, and scroll binding is off iff
\* the events with key e or E are odd in number; so every other key
\* changes neither flag and neither key changes the other flag.
C18_FlagsFollowParity ==
    /\ orbitMode <=> Odd(pressed["o"] + pressed["O"])
    /\ ~enableScrollBinding <=> Odd(pressed["e"] + pressed["E"])

\* An upper-case O, a lower-case e and another key have been pressed.
C18_Witness ==
    /\ pressed["O"] = 1
    /\ pressed["e"] = 1
    /\ pressed["Enter"] = 1
    /\ orbitMode
    /\ ~enableScrollBinding

\* C19: a frame writes scroll.offset * sequenceLength to the position of
\* the sequence and to window.__sequencePosition when scroll binding is
\* enabled and orbit mode is off, and leaves both as they were otherwise.
C19_PositionWrittenOnlyWhenBound ==
    [][frames' # frames =>
          IF enableScrollBinding /\ ~orbitMode
          THEN /\ sheet'.position = Mul(scroll.offset, sheet.length)
               /\ window' = ("__sequencePosition" :> sheet'.position)
          ELSE /\ sheet' = sheet
               /\ window' = window]_vars

\* A frame has written the position to window; then, in orbit mode with
\* scroll binding enabled, the sequence holds another position, which is
\* neither the bound one nor the one in window.
C19_Witness ==
    /\ frames > 1
    /\ orbitMode
    /\ enableScrollBinding
    /\ sheet.position # Mul(scroll.offset, sheet.length)
    /\ window # <<>>
    /\ window["__sequencePosition"] # sheet.position

\* C20: ScrollControls is enabled and the camera has its lookAt target iff
\* orbit mode is off, and OrbitControls is mounted iff orbit mode is on:
\* exactly one of the two modes of camera control is active.
C20_ExactlyOneControlMode ==
    LET scrollMode == jsx.ScrollControls.enabled
                      /\ jsx.PerspectiveCamera.lookAt = "cameraTargetRef"
        noScrollMode == ~jsx.ScrollControls.enabled
                        /\ jsx.PerspectiveCamera.lookAt = "undefined"
    IN  /\ ~orbitMode => scrollMode /\ ~jsx.OrbitControls.mounted
        /\ orbitMode => noScrollMode /\ jsx.OrbitControls.mounted

\* Orbit mode has been switched on and off again.
C20_Witness ==
    /\ pressed["o"] + pressed["O"] = 2
    /\ ~orbitMode
    /\ jsx.ScrollControls.enabled

----------------------------------------------------------------------------
(* Properties of the wind prop *)

\* The value the wind prop supplies for a field, or else the default.
Supplied(field, default) == IF field \in DOMAIN wind THEN wind[field] ELSE default

\* C21: once the effects of a render have run, each uniform of the wind is
\* the value the wind object has for its field, or the default (0.3, 1, 0,
\* 0.3, 0.5, 0.5) when the object has no such field; the direction uniform
\* is the unit vector of that angle.
C21_UniformsFollowWindProp ==
    (rendered /\ pendingEffects = {}) =>
        /\ material.uWindStrength = Supplied("strength", (3 * One) \div 10)
        /\ material.uWindSpeed = Supplied("speed", One)
        /\ material.uWindDirection = <<Cos(Supplied("direction", 0)),
                                       Sin(Supplied("direction", 0))>>
        /\ material.uTurbulence = Supplied("turbulence", (3 * One) \div 10)
        /\ material.uGustFrequency = Supplied("gustFrequency", One \div 2)
        /\ material.uGustStrength = Supplied("gustStrength", One \div 2)

\* The wind prop was changed to an object with two of the six fields and
\* the effects of that render have run.
C21_Witness ==
    /\ rendered
    /\ pendingEffects = {}
    /\ ~regenerated
    /\ DOMAIN wind = {"direction", "gustStrength"}
    /\ material.uWindStrength = (3 * One) \div 10
    /\ material.uGustStrength = One

----------------------------------------------------------------------------
(* Further properties of the Grass component and of the terrain functions *)

NormalTolerance == One \div 50

\* C26: a combined terrain of exactly one terrain function returns, at
\* every point sampled, the height of that function and (up to rounding)
\* its normal.
C26_CombinedOfOneIsThatOne ==
    (CombinedSampled /\ Len(heightFunction.terrains) = 1) =>
        LET child == Call(heightFunction.terrains[1], at[1], at[2])
        IN  /\ sample[1] = child[1]
            /\ Near(NormalOf(sample), NormalOf(child), NormalTolerance)

----------------------------------------------------------------------------
(* Properties of the loading overlay *)

\* C22: the overlay is hidden, and onFinished called, only when progress
\* has been 100 for the whole delay; and when progress changes or
\* LoadingScreen unmounts while a timeout is pending, the timeout is
\* cleared, the overlay stays as it is and onFinished is not called.
C22_HiddenOnlyAfterDelay ==
    [][/\ ((isVisible /\ ~isVisible') \/ finishedCalls' # finishedCalls) =>
              (progress = 100 /\ since100 >= HideDelay)
       /\ (timer # NoTimer /\ (progress' # progress \/ (screenMounted /\ ~screenMounted'))) =>
              /\ timer' = NoTimer
              /\ isVisible' = isVisible
              /\ finishedCalls' = finishedCalls]_vars

\* The overlay has been hidden and onFinished called once.
C22_Witness ==
    /\ ~isVisible
    /\ finishedCalls = 1
    /\ progress = 100
    /\ since100 = HideDelay

\* C28: onFinished is called at most once for a mounted LoadingScreen.
C28_FinishedAtMostOnce == finishedCalls <= 1

\* C29: while the overlay is visible, the loading flag of App is true.
C29_LoadingWhileOverlayVisible == (screenMounted /\ isVisible) => loading

----------------------------------------------------------------------------
(* Properties of the clone patch *)

Mounted == {c \in Components : hooks[c] # NoHook}

\* The children of o that can be cloned while a patch is installed: all
\* but those whose own clone method throws.
Clonable(o) == SelectSeq(o.children, LAMBDA child : child.kind # "Custom")

\* C23: a call of clone made while a patch is installed returns: what the
\* wrapped method returns when that succeeds, and else a Group named after
\* the source ('unknown' if it has no name) with '_placeholder' appended,
\* with its position, rotation, scale and visibility and, for recursive
\* true, one child for each child of the source that can be cloned.
C23_PatchedCloneNeverThrows ==
    (cloned # NoCall /\ cloned.method.kind = "patch") =>
        LET o == cloned.source
            wrapped == Invoke(cloned.method.originalClone, cloned.method, o,
                              cloned.recursive)
            value == cloned.result.value
        IN  /\ cloned.result.ok
            /\ wrapped.ok => cloned.result = wrapped
            /\ ~wrapped.ok =>
                   /\ value.type = "Group"
                   /\ value.name = (IF o.name = ""
                                     THEN "unknown_placeholder"
                                     ELSE o.name \o "_placeholder")
                   /\ value.position = o.position
                   /\ value.rotation = o.rotation
                   /\ value.scale = o.scale
                   /\ value.visible = o.visible
                   /\ (cloned.recursive = "true") =>
                          /\ Len(value.children) = Len(Clonable(o))
                          /\ \A i \in DOMAIN value.children :
                                 value.children[i].name \in
                                     {Clonable(o)[i].name,
                                      PlaceholderName(Clonable(o)[i])}

\* A nameless Text with three children, one of which cannot be cloned, was
\* cloned recursively under the patch: the placeholder has two children.
C23_Witness ==
    /\ cloned # NoCall
    /\ cloned.method.kind = "patch"
    /\ cloned.recursive = "true"
    /\ cloned.source.kind = "Text"
    /\ cloned.source.name = ""
    /\ Len(cloned.source.children) = 3
    /\ cloned.result.ok
    /\ cloned.result.value.name = "unknown_placeholder"
    /\ Len(cloned.result.value.children) = 2

\* C24: when one component only uses the hook, the prototype's clone is
\* the method from before the mount whenever the component is unmounted,
\* and a patch that wraps that method while it is mounted.
C24_UnmountRestoresClone ==
    (users = {"Experience"}) =>
        IF Mounted = {}
        THEN clone = OriginalClone
        ELSE clone.kind = "patch" /\ clone.originalClone = OriginalClone

\* The one component has mounted twice and unmounted twice.
C24_Witness ==
    /\ users = {"Experience"}
    /\ mounts = 2
    /\ Mounted = {}
    /\ clone = OriginalClone

\* C27: the patch is installed while a component that uses the hook is
\* mounted, and the original method when none is.
C27_PatchedWhileAnyMounted ==
    IF Mounted = {} THEN clone = OriginalClone ELSE clone.kind = "patch"

====
